---- MODULE Spec2Model ----
(***************************************************************************)
(* ezMidi: the multi-track player MidiFile_Play, the absolute time map     *)
(* Midi_MapAbsoluteTime, the file reader and writer MidiFile_Open and      *)
(* MidiFile_Save with the variable-length quantities, and Midi_Transpose   *)
(* of src/ezMidi.c, as state machines.                                     *)
(*                                                                         *)
(* uint32_t values are pairs <<hi, lo>> of 16-bit halves (value =          *)
(* hi * 2^16 + lo), because 2^32 is beyond the integers of the model       *)
(* checker; every operation on them is computed modulo 2^32 as in C.       *)
(* uint16_t values are integers kept modulo 2^16.                          *)
(***************************************************************************)
EXTENDS Integers, Sequences, FiniteSets, TLC

\* ------------------------------------------------------------------ bounds
MaxTracks == 2
MaxEvents == 3
MaxDelta == 1
MaxQuarters == 1
MaxSoloEvents == 2

\* ------------------------------------------------- fixed-width arithmetic
Half == 256 * 256
Byte == 16 * 16

U32(h, l) == <<h, l>>
Norm32(h, l) == <<(h + (l \div Half)) % Half, l % Half>>
FromNat(n) == Norm32(0, n)
UINT32_MAX == <<Half - 1, Half - 1>>
Zero32 == <<0, 0>>

Add32(a, b) == Norm32(a[1] + b[1], a[2] + b[2])
Sub32(a, b) == Norm32(a[1] - b[1] + Half - 1, a[2] - b[2] + Half)
Lt32(a, b) == a[1] < b[1] \/ (a[1] = b[1] /\ a[2] < b[2])
Geq32(a, b) == ~Lt32(a, b)
min(a, b) == IF Lt32(a, b) THEN a ELSE b

\* the 32-bit product of two 16-bit numbers, as <<hi, lo>>
Mul16(x, y) ==
    LET x1 == x \div Byte  x0 == x % Byte
        y1 == y \div Byte  y0 == y % Byte
        low == (x1 * y0 + x0 * y1) * Byte + x0 * y0
    IN  <<(x1 * y1 + (low \div Half)) % Half, low % Half>>

\* a * b modulo 2^32
Mul32(a, b) ==
    LET ll == Mul16(a[2], b[2])
        cross == (Mul16(a[1], b[2])[2] + Mul16(a[2], b[1])[2]) % Half
    IN  Norm32(ll[1] + cross, ll[2])

\* a / p for a uint32_t a and a uint16_t p > 0 (long division, a byte at a time)
Div32(a, p) ==
    LET b3 == a[1] \div Byte  b2 == a[1] % Byte
        b1 == a[2] \div Byte  b0 == a[2] % Byte
        q3 == b3 \div p       r3 == b3 % p
        t2 == r3 * Byte + b2
        q2 == t2 \div p       r2 == t2 % p
        t1 == r2 * Byte + b1
        q1 == t1 \div p       r1 == t1 % p
        t0 == r1 * Byte + b0
        q0 == t0 \div p
    IN  Norm32(q3 * Byte + q2, q1 * Byte + q0)

Inc16(n) == (n + 1) % Half

\* ------------------------------------------------------------ event model
Midi_Event_Type_EndOfTrack == 47
Midi_Event_Type_SetTempo == 81
Midi_Event_Type_NoteOn == 144
Midi_Event_Type_NoteOff == 128
Midi_Event_Type_ProgramChange == 192

Player_Callback_PlayEvent == 1
Player_Callback_IgnoreEvent == 0
Player_Callback_Abort == -1

\* a null pointer; pointers to events are records too, so the two compare
NULL == [null |-> TRUE]

\* read_data_Note: channel, key, velocity and OnOff = the status nibble
NoteEvent(type, channel, key, velocity) ==
    [type |-> type,
     data |-> [channel |-> channel, key |-> key, velocity |-> velocity, OnOff |-> type]]
SetTempoEvent(tempo) ==
    [type |-> Midi_Event_Type_SetTempo, data |-> [tempo |-> tempo]]
ProgramChangeEvent(channel, program) ==
    [type |-> Midi_Event_Type_ProgramChange,
     data |-> [channel |-> channel, program |-> program]]
EndOfTrackEvent == [type |-> Midi_Event_Type_EndOfTrack, data |-> NULL]

MidiEvent(deltaTime, body) ==
    [deltaTime |-> deltaTime, type |-> body.type, data |-> body.data]
MidiEvent_GetType(event) == event.type

\* ------------------------------------------------------------ input files
RECURSIVE SumTo(_, _)
SumTo(s, n) == IF n = 0 THEN 0 ELSE s[n - 1] + SumTo(s, n - 1)

\* a shape gives NumEvents of each track; the events of all tracks are drawn
\* as one flat array and cut into tracks
Shapes(maxTracks, maxEvents) ==
    UNION {{s \in [0 .. n - 1 -> 1 .. maxEvents] : SumTo(s, n) <= maxEvents} :
           n \in 1 .. maxTracks}

BuildFile(ppq, s, flat) ==
    LET n == Cardinality(DOMAIN s) IN
    [Format |-> IF n = 1 THEN 0 ELSE 1,
     nTrks |-> n,
     PulsesPerQuarterNote |-> ppq,
     Tracks |-> [t \in 0 .. n - 1 |->
                   [NumEvents |-> s[t],
                    Events |-> [i \in 0 .. s[t] - 1 |-> flat[SumTo(s, t) + i]]]]]

\* the file is any file of one of the shapes, over the given events
FileIn(file, ppqs, shapes, bodies, deltas) ==
    \E s \in shapes :
        \E flat \in [0 .. SumTo(s, Cardinality(DOMAIN s)) - 1 ->
                       {MidiEvent(FromNat(d), b) : d \in deltas, b \in bodies}] :
            \E ppq \in ppqs : file = BuildFile(ppq, s, flat)

DefaultTickUs == 2602
StandardPPQ == 480
TempoA == U32(7, 41248)
TempoB == U32(9, 10176)

\* ------------------------------------------------------------------ state
VARIABLES
    midi,                    \* the MidiFile_t handed to the operation
    pc,                      \* "idle", "while", "for", "done", "fault"
    start_usec, cbFunc,      \* MidiFile_Play's arguments
    waitTicks, minimumWaitTicks, countFinishedTracks, currentEvent,
    TickDurationUs, currentTotalTime_Ticks, currentTotalTime_Usecs,
    decrementTicks, trackIndex, cbResult,
    list, numEvents,         \* Midi_MapAbsoluteTime's result
    calls,                   \* the callback invocations so far
    synth,                   \* the synth sink calls so far
    sleeps,                  \* the SLEEPUS calls so far
    disk,                    \* the bytes of each file of the file system
    handle,                  \* what MidiFile_Open returned for each file
    retval,                  \* the last call of Midi_Transpose and its result
    vlq                      \* a buffer, a value and a result of the VLQ codec

vars == <<midi, pc, start_usec, cbFunc, waitTicks, minimumWaitTicks,
          countFinishedTracks, currentEvent, TickDurationUs,
          currentTotalTime_Ticks, currentTotalTime_Usecs, decrementTicks,
          trackIndex, cbResult, list, numEvents, calls, synth, sleeps,
          disk, handle, retval, vlq>>

codecVars == <<disk, handle, retval, vlq>>

playVars == <<waitTicks, minimumWaitTicks, countFinishedTracks, currentEvent,
              TickDurationUs, currentTotalTime_Ticks, currentTotalTime_Usecs,
              decrementTicks, trackIndex, cbResult>>

\* a MidiEvent_t*: the event at an index of a track of the file
EventRef(t, i) == [track |-> t, index |-> i]
EventOf(ref) == midi.Tracks[ref.track].Events[ref.index]

\* ------------------------------------------------------------- synth sink
MidiDevice_PlayNote(key, channel, velocity, state) ==
    [op |-> "note", key |-> key, channel |-> channel, velocity |-> velocity,
     on |-> state]
MidiDevice_SetChannelInstrument(channel, instrument) ==
    [op |-> "program", channel |-> channel, program |-> instrument]

\* --------------------------------------------------------------- time map
\* the scan of a playerCb that starts at the oldest entry
RECURSIVE FindOldest(_, _, _, _)
FindOldest(l, i, this_note, track) ==
    IF i < 0 THEN -1
    ELSE LET older == FindOldest(l, i - 1, this_note, track)
             match_data == EventOf(l[i].OnEvent).data
         IN  IF older >= 0 THEN older
             ELSE IF /\ l[i].OffEvent = NULL
                     /\ match_data.channel = this_note.channel
                     /\ l[i].track = track
                     /\ match_data.key = this_note.key
                  THEN i
                  ELSE -1

\* the for loop of playerCb: the index of the entry a note-off closes, or -1
RECURSIVE FindMatch(_, _, _, _)
FindMatch(l, i, this_note, track) ==
    IF i < 0 THEN -1
    ELSE LET match == l[i]
             match_data == EventOf(match.OnEvent).data
         IN  IF match.OffEvent # NULL THEN FindMatch(l, i - 1, this_note, track)
             ELSE IF match_data = NULL THEN FindMatch(l, i - 1, this_note, track)
             ELSE IF /\ match_data.channel = this_note.channel
                     /\ match.track = track
                     /\ match_data.key = this_note.key
                     /\ match_data.OnOff = Midi_Event_Type_NoteOn
                  THEN i
                  ELSE FindMatch(l, i - 1, this_note, track)

addMap(l, n, entry) == [i \in 0 .. n |-> IF i < n THEN l[i] ELSE entry]

\* a playerCb that takes every NoteOn event for a note-on
playerCbAnyVelocity(l, n, ref, event, track, timeUs) ==
    IF event.type = Midi_Event_Type_NoteOn
    THEN addMap(l, n, [OnEvent |-> ref, OffEvent |-> NULL, track |-> track,
                       startTime |-> timeUs, endTime |-> UINT32_MAX])
    ELSE l

\* playerCb: the list after the callback has seen the event
playerCb(l, n, ref, event, track, timeUs) ==
    IF event.type \notin {Midi_Event_Type_NoteOff, Midi_Event_Type_NoteOn} THEN l
    ELSE IF event.data = NULL THEN l
    ELSE IF event.data.OnOff = Midi_Event_Type_NoteOff \/ event.data.velocity = 0
    THEN LET i == FindMatch(l, n - 1, event.data, track)
         IN  IF i < 0 THEN l
             ELSE [l EXCEPT ![i].OffEvent = ref, ![i].endTime = timeUs]
    ELSE addMap(l, n, [OnEvent |-> ref, OffEvent |-> NULL, track |-> track,
                       startTime |-> timeUs, endTime |-> UINT32_MAX])

IsNewEntry(event) ==
    /\ event.type \in {Midi_Event_Type_NoteOff, Midi_Event_Type_NoteOn}
    /\ event.data # NULL
    /\ ~(event.data.OnOff = Midi_Event_Type_NoteOff \/ event.data.velocity = 0)

\* ----------------------------------------------------------------- player
\* lines 1198-1211: the locals of MidiFile_Play
PlayBegin(start, cb) ==
    /\ start_usec' = start
    /\ cbFunc' = cb
    /\ waitTicks' = [t \in 0 .. midi.nTrks - 1 |-> Zero32]
    /\ currentEvent' = [t \in 0 .. midi.nTrks - 1 |-> 0]
    /\ minimumWaitTicks' = Zero32
    /\ countFinishedTracks' = 0
    /\ TickDurationUs' = FromNat(DefaultTickUs)
    /\ currentTotalTime_Ticks' = Zero32
    /\ currentTotalTime_Usecs' = Zero32
    /\ pc' = "while"
    /\ UNCHANGED <<midi, decrementTicks, trackIndex, cbResult, calls, synth, sleeps>>
    /\ UNCHANGED codecVars

StartTimes == {Zero32, FromNat(DefaultTickUs)}

\* a caller plays the file with a callback of its own
MidiFile_Play ==
    /\ pc = "idle"
    /\ \E start \in StartTimes : PlayBegin(start, "user")
    /\ UNCHANGED <<list, numEvents>>

\* Midi_MapAbsoluteTime: plays the file with playerCb and start UINT32_MAX
Midi_MapAbsoluteTime ==
    /\ pc = "idle"
    /\ numEvents' = 0
    /\ list' = << >>
    /\ PlayBegin(UINT32_MAX, "playerCb")

SleepsAlways(timeUs, start) == TRUE

\* line 1219: the player sleeps only from the start time on
Sleeps(timeUs, start) == Geq32(timeUs, start)

\* lines 1213-1223: one turn of the while loop, up to the for loop
Play_While ==
    /\ pc = "while"
    /\ countFinishedTracks < midi.nTrks
    /\ currentTotalTime_Ticks' = Add32(currentTotalTime_Ticks, minimumWaitTicks)
    /\ currentTotalTime_Usecs' =
           Add32(currentTotalTime_Usecs, Mul32(TickDurationUs, minimumWaitTicks))
    /\ sleeps' = IF Sleeps(currentTotalTime_Usecs', start_usec)
                 THEN Append(sleeps, Mul32(TickDurationUs, minimumWaitTicks))
                 ELSE sleeps
    /\ decrementTicks' = minimumWaitTicks
    /\ minimumWaitTicks' = UINT32_MAX
    /\ trackIndex' = 0
    /\ pc' = "for"
    /\ UNCHANGED <<midi, start_usec, cbFunc, waitTicks, countFinishedTracks,
                   currentEvent, TickDurationUs, cbResult, list, numEvents,
                   calls, synth, codecVars>>

\* line 1213: the loop ends when every track is counted finished
Play_Return ==
    /\ pc = "while"
    /\ ~(countFinishedTracks < midi.nTrks)
    /\ pc' = "done"
    /\ UNCHANGED <<midi, start_usec, cbFunc, playVars, list, numEvents, calls,
                   synth, sleeps, codecVars>>

CallbackResults ==
    {Player_Callback_PlayEvent, Player_Callback_IgnoreEvent, Player_Callback_Abort}

\* what the callback answers for an event
Callback(cb) ==
    IF cb = "playerCb" THEN {Player_Callback_IgnoreEvent} ELSE CallbackResults

AbortedNever(result) == FALSE

\* line 1240: the callback stops the player
Aborted(result) == result = Player_Callback_Abort

IgnoredAlways(result, type) == result = Player_Callback_IgnoreEvent

\* line 1243: the side effect is skipped
Ignored(result, type) ==
    result = Player_Callback_IgnoreEvent /\ type # Midi_Event_Type_SetTempo

\* line 1246: the event goes to the synth sink's note operation
PlaysNote(type, timeUs, start) ==
    /\ type \in {Midi_Event_Type_NoteOn, Midi_Event_Type_NoteOff}
    /\ Geq32(timeUs, start)

\* line 1249: the on/off state handed to MidiDevice_PlayNote
NoteState(event, type) == type = Midi_Event_Type_NoteOn

\* lines 1246-1265: the synth sink calls after the event's side effect
Dispatch(s, event, type, result, timeUs, start) ==
    IF Ignored(result, type) THEN s
    ELSE IF PlaysNote(type, timeUs, start)
    THEN Append(s, MidiDevice_PlayNote(event.data.key, event.data.channel,
                                       event.data.velocity, NoteState(event, type)))
    ELSE IF type = Midi_Event_Type_SetTempo THEN s
    ELSE IF type = Midi_Event_Type_ProgramChange
    THEN Append(s, MidiDevice_SetChannelInstrument(event.data.channel,
                                                   event.data.program))
    ELSE s

\* lines 1251-1256: the tick duration after the event's side effect
NewTickDuration(tick, event, type, result, timeUs, start) ==
    IF Ignored(result, type) THEN tick
    ELSE IF PlaysNote(type, timeUs, start) THEN tick
    ELSE IF type = Midi_Event_Type_SetTempo
    THEN Div32(event.data.tempo, midi.PulsesPerQuarterNote)
    ELSE tick

FinishedEarly(track, cur) == cur + 1 >= track.NumEvents

\* line 1269: the track has no event left at index cur
Finished(track, cur) == cur >= track.NumEvents

\* lines 1235, 1272: Events[i] of a track; a track of NumEvents equal events
\* is held as the one event Every
TrackEvent(track, i) ==
    IF "Every" \in DOMAIN track THEN track.Every ELSE track.Events[i]

\* lines 1268-1272: the wait of a track whose event index is now cur
NextWait(track, cur) ==
    IF Finished(track, cur) THEN UINT32_MAX ELSE TrackEvent(track, cur).deltaTime

\* line 1225: after the body for trackIndex, the for loop goes on or ends
ForStep ==
    /\ trackIndex' = trackIndex + 1
    /\ pc' = IF trackIndex + 1 < midi.nTrks THEN "for" ELSE "while"

\* lines 1225-1275: the body of the for loop for one track
Play_For ==
    /\ pc = "for"
    /\ LET t == trackIndex
           w == Sub32(waitTicks[t], decrementTicks)
           track == midi.Tracks[t]
           cur == currentEvent[t]
       IN  IF w # Zero32
           THEN \* lines 1229-1233: the track is still waiting
                /\ waitTicks' = [waitTicks EXCEPT ![t] = w]
                /\ minimumWaitTicks' = min(minimumWaitTicks, w)
                /\ ForStep
                /\ UNCHANGED <<countFinishedTracks, currentEvent, TickDurationUs,
                               cbResult, list, numEvents, calls, synth>>
           ELSE IF cur >= track.NumEvents
           THEN \* line 1235 reads beyond the track's events
                /\ pc' = "fault"
                /\ waitTicks' = [waitTicks EXCEPT ![t] = w]
                /\ UNCHANGED <<minimumWaitTicks, countFinishedTracks, currentEvent,
                               TickDurationUs, cbResult, trackIndex, list,
                               numEvents, calls, synth>>
           ELSE \E result \in Callback(cbFunc) :
                LET event == TrackEvent(track, cur)
                    type == MidiEvent_GetType(event)
                    next == Inc16(cur)
                    wait == NextWait(track, next)
                IN  /\ cbResult' = result
                    /\ calls' = Append(calls,
                                  [event |-> EventRef(t, cur), track |-> t,
                                   timeTicks |-> currentTotalTime_Ticks,
                                   timeUs |-> currentTotalTime_Usecs])
                    /\ IF cbFunc = "playerCb"
                       THEN /\ list' = playerCb(list, numEvents, EventRef(t, cur), event, t,
                                                currentTotalTime_Usecs)
                            /\ numEvents' = IF IsNewEntry(event) THEN numEvents + 1
                                            ELSE numEvents
                       ELSE UNCHANGED <<list, numEvents>>
                    /\ IF Aborted(result)
                       THEN \* lines 1240-1241
                            /\ pc' = "done"
                            /\ waitTicks' = [waitTicks EXCEPT ![t] = w]
                            /\ UNCHANGED <<minimumWaitTicks, countFinishedTracks,
                                           currentEvent, TickDurationUs, trackIndex,
                                           synth>>
                       ELSE /\ synth' = Dispatch(synth, event, type, result,
                                                 currentTotalTime_Usecs, start_usec)
                            /\ TickDurationUs' =
                                   NewTickDuration(TickDurationUs, event, type, result,
                                                   currentTotalTime_Usecs, start_usec)
                            /\ currentEvent' = [currentEvent EXCEPT ![t] = next]
                            /\ countFinishedTracks' =
                                   IF Finished(track, next)
                                   THEN Inc16(countFinishedTracks)
                                   ELSE countFinishedTracks
                            /\ waitTicks' = [waitTicks EXCEPT ![t] = wait]
                            /\ minimumWaitTicks' = min(minimumWaitTicks, wait)
                            /\ ForStep
    /\ UNCHANGED <<midi, start_usec, cbFunc, currentTotalTime_Ticks,
                   currentTotalTime_Usecs, decrementTicks, sleeps, codecVars>>

\* --------------------------------------------------------- specifications
InitLocals ==
    /\ pc = "idle"
    /\ start_usec = Zero32
    /\ cbFunc = "none"
    /\ waitTicks = << >>
    /\ currentEvent = << >>
    /\ minimumWaitTicks = Zero32
    /\ countFinishedTracks = 0
    /\ TickDurationUs = Zero32
    /\ currentTotalTime_Ticks = Zero32
    /\ currentTotalTime_Usecs = Zero32
    /\ decrementTicks = Zero32
    /\ trackIndex = 0
    /\ cbResult = Player_Callback_IgnoreEvent
    /\ list = << >>
    /\ numEvents = 0
    /\ calls = << >>
    /\ synth = << >>
    /\ sleeps = << >>

\* no file on disk, no file opened, no call made of the codec or of transpose
InitCodec ==
    /\ disk = << >>
    /\ handle = << >>
    /\ retval = NULL
    /\ vlq = NULL

PlayBodies == {NoteEvent(Midi_Event_Type_NoteOn, 0, 60, 64), SetTempoEvent(TempoA)}

Init ==
    /\ FileIn(midi, {StandardPPQ}, Shapes(MaxTracks, MaxEvents), PlayBodies,
              0 .. MaxDelta)
    /\ InitLocals
    /\ InitCodec

Next == MidiFile_Play \/ Play_While \/ Play_For \/ Play_Return

Spec == Init /\ [][Next]_vars

\* the same player under the scheduling the C runtime gives it: a call that
\* can take its next step does take it
SpecLive == Spec /\ WF_vars(Next)

\* single-track files over the events with a side effect, at quarter-note
\* distances
TempoBodies ==
    {SetTempoEvent(TempoA), SetTempoEvent(TempoB),
     NoteEvent(Midi_Event_Type_NoteOn, 0, 60, 0),
     NoteEvent(Midi_Event_Type_NoteOff, 0, 60, 64),
     ProgramChangeEvent(0, 5)}

InitTempo ==
    /\ FileIn(midi, {StandardPPQ}, Shapes(1, MaxSoloEvents), TempoBodies,
              {q * StandardPPQ : q \in 0 .. MaxQuarters})
    /\ InitLocals
    /\ InitCodec

SpecTempo == InitTempo /\ [][Next]_vars

\* files of note events for the time map
MapBodies ==
    {NoteEvent(Midi_Event_Type_NoteOn, 0, 60, 64),
     NoteEvent(Midi_Event_Type_NoteOn, 0, 60, 0),
     NoteEvent(Midi_Event_Type_NoteOff, 0, 60, 64),
     NoteEvent(Midi_Event_Type_NoteOff, 0, 61, 64)}

InitMap ==
    /\ FileIn(midi, {StandardPPQ}, Shapes(MaxTracks, MaxEvents), MapBodies,
              {0, MaxDelta})
    /\ InitLocals
    /\ InitCodec

NextMap == Midi_MapAbsoluteTime \/ Play_While \/ Play_For \/ Play_Return

SpecMap == InitMap /\ [][NextMap]_vars

\* ----------------------------------------------------- reading the traces
\* a uint32_t below 2^31 as a number
ToNat(a) == a[1] * Half + a[2]

Last(q) == q[Len(q)]
LastEvent == EventOf(Last(calls).event)

\* the callback invocations for the events of track t, in the order made
CallsOf(t) == SelectSeq(calls, LAMBDA c : c.track = t)

TotalEvents == SumTo([t \in 0 .. midi.nTrks - 1 |-> midi.Tracks[t].NumEvents],
                     midi.nTrks)

\* the sum of the delta times of the events 0 .. i of track t
RECURSIVE DeltaSum(_, _)
DeltaSum(t, i) ==
    IF i < 0 THEN Zero32
    ELSE Add32(DeltaSum(t, i - 1), midi.Tracks[t].Events[i].deltaTime)

\* the steps of a behaviour
WhileStep == pc = "while" /\ pc' = "for"
FireStep == Len(calls') = Len(calls) + 1
Returned == pc = "done"
Completed == pc = "done" /\ cbResult # Player_Callback_Abort

\* ------------------------------------------------------------------ claims

\* C1: the callback invocations of MidiFile_Play come in (clock_ticks, track)
\* order: of two consecutive invocations the later has a larger clock_ticks,
\* or the same clock_ticks and a track index that is not smaller.
C1_CallbackOrder ==
    \A k \in 1 .. Len(calls) - 1 :
        \/ Lt32(calls[k].timeTicks, calls[k + 1].timeTicks)
        \/ /\ calls[k].timeTicks = calls[k + 1].timeTicks
           /\ calls[k].track <= calls[k + 1].track

\* C2: every event is passed to the callback with clock_ticks equal to the
\* sum of the delta times of its track up to and including the event, so a
\* first event with delta time d fires at tick d.
C2_ClockIsDeltaSum ==
    \A k \in 1 .. Len(calls) :
        calls[k].timeTicks = DeltaSum(calls[k].track, calls[k].event.index)

\* C3: after a SetTempo, advancing ppq ticks advances clock_us by exactly the
\* tempo: with PPQ 480 and SetTempo 500000 at tick 0, the event 480 ticks
\* later is passed to the callback with clock_us = 500000.
C3_QuarterNoteIsTempo ==
    \A k \in 2 .. Len(calls) :
        LET prev == EventOf(calls[k - 1].event)
            cur == EventOf(calls[k].event)
        IN  (/\ midi.nTrks = 1
             /\ prev.type = Midi_Event_Type_SetTempo
             /\ cur.deltaTime = FromNat(midi.PulsesPerQuarterNote)) =>
                Sub32(calls[k].timeUs, calls[k - 1].timeUs) = prev.data.tempo

\* every track's events have gone to the callback once each, in source order
AllFiredInOrder ==
    \A t \in 0 .. midi.nTrks - 1 :
        /\ Len(CallsOf(t)) = midi.Tracks[t].NumEvents
        /\ \A i \in 1 .. Len(CallsOf(t)) : CallsOf(t)[i].event = EventRef(t, i - 1)

\* C4: when the callback never aborts and every track has an event,
\* MidiFile_Play terminates, and by then every event of every track has been
\* passed to the callback exactly once, the events of a track in source order.
C4_PlaysEveryEventOnce ==
    /\ <>Returned
    /\ [](Completed => AllFiredInOrder)

C4_Witness ==
    /\ Completed
    /\ midi.nTrks = 2
    /\ Len(calls) = 3
    /\ calls[3].timeTicks # Zero32

\* C5: when the callback returns Abort for an event MidiFile_Play returns at
\* once: the event causes no synth call and no tempo change, and after the
\* return no event is passed to the callback and nothing sleeps.
C5_AbortReturnsAtOnce ==
    [][/\ (FireStep /\ cbResult' = Player_Callback_Abort) =>
              /\ pc' = "done"
              /\ synth' = synth
              /\ TickDurationUs' = TickDurationUs
              /\ sleeps' = sleeps
       /\ Returned => (calls' = calls /\ synth' = synth /\ sleeps' = sleeps)]_vars

C5_Witness ==
    /\ Returned
    /\ cbResult = Player_Callback_Abort
    /\ Len(calls) = 3
    /\ LastEvent.type = Midi_Event_Type_NoteOn
    /\ Geq32(Last(calls).timeUs, start_usec)
    /\ \E k \in 1 .. 2 : EventOf(calls[k].event).type = Midi_Event_Type_SetTempo

\* the tick duration in effect after the first j callback invocations: the
\* default, or tempo / ppq of the latest SetTempo among them
RECURSIVE TickAfter(_)
TickAfter(j) ==
    IF j = 0 THEN DefaultTickUs
    ELSE IF EventOf(calls[j].event).type = Midi_Event_Type_SetTempo
    THEN ToNat(EventOf(calls[j].event).data.tempo) \div midi.PulsesPerQuarterNote
    ELSE TickAfter(j - 1)

\* C6: a SetTempo is applied even when the callback returns Ignore: tick_us
\* becomes tempo / ppq and every later clock_us increment uses it; for NoteOn,
\* NoteOff and ProgramChange an Ignore suppresses the synth call.
C6_TempoAlwaysApplied ==
    /\ [](\A k \in 2 .. Len(calls) :
             ToNat(calls[k].timeUs) - ToNat(calls[k - 1].timeUs) =
                 (ToNat(calls[k].timeTicks) - ToNat(calls[k - 1].timeTicks))
                 * TickAfter(k - 1))
    /\ [][(FireStep /\ cbResult' = Player_Callback_IgnoreEvent) =>
              LET e == EventOf(Last(calls').event)
              IN  /\ e.type = Midi_Event_Type_SetTempo =>
                         ToNat(TickDurationUs') =
                             ToNat(e.data.tempo) \div midi.PulsesPerQuarterNote
                  /\ e.type \in {Midi_Event_Type_NoteOn, Midi_Event_Type_NoteOff,
                                 Midi_Event_Type_ProgramChange} =>
                         synth' = synth]_vars

C6_Witness ==
    /\ Len(calls) = 1
    /\ cbResult = Player_Callback_IgnoreEvent
    /\ LastEvent.type = Midi_Event_Type_SetTempo
    /\ LastEvent.data.tempo = TempoA
    /\ TickDurationUs = FromNat(1041)
    /\ pc = "while"

\* C7: a played NoteOn with velocity 0 at clock_us >= start_us reaches the
\* synth sink's note operation with on = false, as a NoteOff does.
C7_VelocityZeroIsNoteOff ==
    \A i \in 1 .. Len(synth) :
        (synth[i].op = "note" /\ synth[i].velocity = 0) => synth[i].on = FALSE

\* the synth sink's note operation was called in this step
NoteEmitted ==
    /\ Len(synth') = Len(synth) + 1
    /\ Last(synth').op = "note"

\* C8: while clock_us < start_us MidiFile_Play neither sleeps nor calls the
\* synth sink's note operation, yet every event is passed to the callback;
\* in a step with clock_us >= start_us it sleeps d * tick_us, and a played
\* note event is emitted.
C8_FastForward ==
    /\ [][/\ WhileStep /\ Lt32(currentTotalTime_Usecs', start_usec) =>
                 sleeps' = sleeps
          /\ WhileStep /\ Geq32(currentTotalTime_Usecs', start_usec) =>
                 /\ Len(sleeps') = Len(sleeps) + 1
                 /\ ToNat(Last(sleeps')) =
                        (ToNat(currentTotalTime_Ticks') - ToNat(currentTotalTime_Ticks))
                        * ToNat(TickDurationUs)
          /\ ~WhileStep => sleeps' = sleeps
          /\ FireStep /\ Lt32(currentTotalTime_Usecs, start_usec) => ~NoteEmitted
          /\ (/\ FireStep
              /\ Geq32(currentTotalTime_Usecs, start_usec)
              /\ cbResult' = Player_Callback_PlayEvent
              /\ EventOf(Last(calls').event).type = Midi_Event_Type_NoteOn) =>
                 /\ NoteEmitted
                 /\ Last(synth').key = EventOf(Last(calls').event).data.key]_vars
    /\ [](Completed => Len(calls) = TotalEvents)

C8_Witness ==
    /\ Completed
    /\ Len(calls) = 3
    /\ Lt32(calls[1].timeUs, start_usec)
    /\ EventOf(calls[1].event).type = Midi_Event_Type_NoteOn
    /\ Geq32(calls[3].timeUs, start_usec)
    /\ Len(sleeps) = 1
    /\ Len(synth) = 1

\* ---------------------------------------------------- time map, as claimed
IsNoteOn(e) == e.type = Midi_Event_Type_NoteOn /\ e.data.velocity > 0
IsClosing(e) ==
    \/ e.type = Midi_Event_Type_NoteOff
    \/ e.type = Midi_Event_Type_NoteOn /\ e.data.velocity = 0
SameNote(a, b) == a.data.channel = b.data.channel /\ a.data.key = b.data.key

\* the clock_us with which an event was passed to the callback
CallTime(ref) == (CHOOSE k \in 1 .. Len(calls) : calls[k].event = ref)
TimeOf(ref) == calls[CallTime(ref)].timeUs

OnRefs ==
    {EventRef(t, i) : t \in 0 .. midi.nTrks - 1, i \in 0 .. MaxEvents} \cap
    {r \in [track : 0 .. midi.nTrks - 1, index : 0 .. MaxEvents] :
        /\ r.index < midi.Tracks[r.track].NumEvents
        /\ IsNoteOn(EventOf(r))}

\* one entry per NoteOn with velocity > 0
OneEntryPerNoteOn ==
    /\ numEvents = Cardinality(OnRefs)
    /\ DOMAIN list = 0 .. numEvents - 1
    /\ \A r \in OnRefs :
           Cardinality({i \in DOMAIN list : list[i].OnEvent = r}) = 1
    /\ \A i \in DOMAIN list : list[i].track = list[i].OnEvent.track

\* the later events of the NoteOn's track that close its (channel, key)
Followers(r) ==
    {k \in r.index + 1 .. midi.Tracks[r.track].NumEvents - 1 :
        LET e == midi.Tracks[r.track].Events[k]
        IN  IsClosing(e) /\ SameNote(e, EventOf(r))}

\* the later NoteOns of the NoteOn's track on its (channel, key)
Reopeners(r) ==
    {k \in r.index + 1 .. midi.Tracks[r.track].NumEvents - 1 :
        LET e == midi.Tracks[r.track].Events[k]
        IN  IsNoteOn(e) /\ SameNote(e, EventOf(r))}

\* the closing events that find the NoteOn's entry the most recent unclosed
\* one: those before which every later NoteOn of the note has been closed
Closers(r) ==
    {k \in Followers(r) :
        Cardinality({j \in Followers(r) : j <= k}) =
            Cardinality({j \in Reopeners(r) : j < k}) + 1}

Min(S) == CHOOSE x \in S : \A y \in S : x <= y
Max(S) == CHOOSE x \in S : \A y \in S : x >= y

EntryOpen(x) == x.OffEvent = NULL /\ x.endTime = UINT32_MAX
EntryClosedBy(x, k) ==
    /\ x.OffEvent = EventRef(x.track, k)
    /\ x.endTime = TimeOf(EventRef(x.track, k))

\* C9 as stated: one entry per NoteOn with velocity > 0; an entry whose
\* NoteOn is followed by no matching NoteOff (or velocity-0 NoteOn) keeps
\* off_event = null and end_us = UINT32_MAX, and an entry whose NoteOn is
\* followed by one has the end_us of a closing event that follows it.
C9_PairsEveryFollowedNoteOn ==
    Returned =>
        /\ OneEntryPerNoteOn
        /\ \A i \in DOMAIN list :
               IF Followers(list[i].OnEvent) = {}
               THEN EntryOpen(list[i])
               ELSE \E k \in Followers(list[i].OnEvent) : EntryClosedBy(list[i], k)

\* C9 as amended: one entry per NoteOn with velocity > 0; an entry is closed
\* by the first later closing event of its (track, channel, key) that finds
\* it the most recent unclosed entry, with that event's clock_us as end_us,
\* and stays open (null, UINT32_MAX) when there is no such event; a
\* velocity-0 NoteOn closes as a NoteOff does.
C9_PairsMostRecentNoteOn ==
    Returned =>
        /\ OneEntryPerNoteOn
        /\ \A i \in DOMAIN list :
               IF Closers(list[i].OnEvent) = {}
               THEN EntryOpen(list[i])
               ELSE EntryClosedBy(list[i], Min(Closers(list[i].OnEvent)))

C9_Witness ==
    /\ Returned
    /\ numEvents = 2
    /\ midi.nTrks = 1
    /\ list[0].OffEvent = NULL
    /\ list[1].OffEvent # NULL
    /\ EventOf(list[1].OffEvent).type = Midi_Event_Type_NoteOn
    /\ list[1].endTime # list[1].startTime

\* the unclosed entries a closing event of a track matches
Unclosed(e, t) ==
    {i \in DOMAIN list :
        /\ list[i].OffEvent = NULL
        /\ list[i].track = t
        /\ SameNote(EventOf(list[i].OnEvent), e)}

\* C10: a NoteOff (or velocity-0 NoteOn) closes exactly one entry, the most
\* recently added unclosed one with its (track, channel, key); every other
\* entry is unchanged, a closed entry is never modified again, and a NoteOff
\* with no unclosed match changes nothing.
C10_ClosesMostRecent ==
    [][/\ \A i \in DOMAIN list :
              /\ i \in DOMAIN list'
              /\ list[i].OffEvent # NULL => list'[i] = list[i]
       /\ FireStep =>
              LET c == Last(calls')
                  e == EventOf(c.event)
                  M == Unclosed(e, c.track)
              IN  IF IsClosing(e) /\ M # {}
                  THEN /\ DOMAIN list' = DOMAIN list
                       /\ \A i \in DOMAIN list \ {Max(M)} : list'[i] = list[i]
                       /\ list'[Max(M)] =
                              [list[Max(M)] EXCEPT !.OffEvent = c.event,
                                                   !.endTime = c.timeUs]
                  ELSE /\ \A i \in DOMAIN list : list'[i] = list[i]
                       /\ IsClosing(e) => list' = list]_vars

C10_Witness ==
    /\ numEvents = 2
    /\ list[0].OffEvent = NULL
    /\ list[1].OffEvent # NULL
    /\ list[0].track = list[1].track
    /\ EventOf(list[1].OffEvent).type = Midi_Event_Type_NoteOff
    /\ list[1].endTime # list[1].startTime

\* ================================================================== codec
\* ------------------------------------------------ variable-length quantity
MaxVlqBuffer == 5
MaxVlqGroups == 4
MaxVlqBytes == 5

VlqBase == 128
Div128(v) == Div32(v, VlqBase)
Low7(v) == v[2] % VlqBase

\* ReadVariableLength: the loop, at size_read bytes read from buffer[pos ..]
RECURSIVE ReadVariableLengthLoop(_, _, _, _, _)
ReadVariableLengthLoop(buffer, pos, bufflen, size_read, outvalue) ==
    IF size_read >= bufflen
    THEN [size |-> -1, value |-> outvalue]
    ELSE LET read == buffer[pos + size_read + 1] IN
         IF read < 128
         THEN [size |-> size_read + 1, value |-> Add32(outvalue, FromNat(read))]
         ELSE ReadVariableLengthLoop(buffer, pos, bufflen, size_read + 1,
                  Mul32(Add32(outvalue, FromNat(read - 128)), FromNat(VlqBase)))

\* ReadVariableLength(&buffer[pos], bufflen, &value): size is the return value
ReadVariableLength(buffer, pos, bufflen) ==
    ReadVariableLengthLoop(buffer, pos, bufflen, 0, Zero32)

\* line 623: the number of bytes before the last one
RECURSIVE CountMore(_)
CountMore(v) == IF Div128(v) = Zero32 THEN 0 ELSE 1 + CountMore(Div128(v))

\* lines 630-631: the i bytes before the last one, for the value left
RECURSIVE WorkBackwards(_, _)
WorkBackwards(v, i) ==
    IF i = 0 THEN << >>
    ELSE Append(WorkBackwards(Div128(v), i - 1), Low7(v) + 128)

\* a writer that always writes five bytes
WriteVariableLengthPadded(bufflen, value) ==
    IF 5 > bufflen THEN [size |-> -1, bytes |-> << >>]
    ELSE [size |-> 5,
          bytes |-> Append(WorkBackwards(Div128(value), 4), Low7(value))]

\* WriteVariableLength(buffer, bufflen, value): size is the return value
WriteVariableLength(bufflen, value) ==
    LET i == CountMore(value) IN
    IF i + 1 > bufflen THEN [size |-> -1, bytes |-> << >>]
    ELSE [size |-> i + 1,
          bytes |-> Append(WorkBackwards(Div128(value), i), Low7(value))]

\* the values written: every number of MaxVlqGroups base-128 digits drawn
\* from the least, the next and the greatest digit
VlqDigits == {0, 1, VlqBase - 1}
RECURSIVE Horner(_, _)
Horner(d, n) ==
    IF n = 0 THEN Zero32
    ELSE Add32(Mul32(Horner(d, n - 1), FromNat(VlqBase)), FromNat(d[n]))
VlqValues == {Horner(d, MaxVlqGroups) : d \in [1 .. MaxVlqGroups -> VlqDigits]}

\* the buffers read: every string of up to MaxVlqBytes bytes over a final
\* byte, two continuation bytes and the greatest final byte
VlqAlphabet == {0, VlqBase - 1, VlqBase, 255}
VlqBuffers == UNION {[1 .. n -> VlqAlphabet] : n \in 0 .. MaxVlqBytes}

InitVlq ==
    /\ midi = NULL
    /\ InitLocals
    /\ disk = << >>
    /\ handle = << >>
    /\ retval = NULL
    /\ \/ \E v \in VlqValues, n \in 1 .. MaxVlqBuffer :
              vlq = [stage |-> "value", value |-> v, bufflen |-> n,
                     buffer |-> << >>, size |-> 0, read |-> NULL]
       \/ \E b \in VlqBuffers :
              vlq = [stage |-> "buffer", value |-> Zero32, bufflen |-> Len(b),
                     buffer |-> b, size |-> 0, read |-> NULL]

\* a caller writes the value into a buffer of bufflen bytes
Vlq_Write ==
    /\ vlq.stage = "value"
    /\ LET w == WriteVariableLength(vlq.bufflen, vlq.value) IN
       vlq' = [vlq EXCEPT !.stage = IF w.size > 0 THEN "buffer" ELSE "failed",
                          !.buffer = w.bytes, !.size = w.size]
    /\ UNCHANGED <<midi, pc, start_usec, cbFunc, playVars, list, numEvents,
                   calls, synth, sleeps, disk, handle, retval>>

\* a caller reads a quantity from the whole buffer
Vlq_Read ==
    /\ vlq.stage = "buffer"
    /\ vlq' = [vlq EXCEPT !.stage = "read",
                          !.read = ReadVariableLength(vlq.buffer, 0, Len(vlq.buffer))]
    /\ UNCHANGED <<midi, pc, start_usec, cbFunc, playVars, list, numEvents,
                   calls, synth, sleeps, disk, handle, retval>>

NextVlq == Vlq_Write \/ Vlq_Read

SpecVlq == InitVlq /\ [][NextVlq]_vars

\* 2^28, the first value beyond four bytes
VlqLimit == U32(16 * 256, 0)

\* the least number of 7-bit groups that hold v
MinimalLength(v) ==
    IF Lt32(v, FromNat(VlqBase)) THEN 1
    ELSE IF Lt32(v, FromNat(VlqBase * VlqBase)) THEN 2
    ELSE IF Lt32(v, FromNat(VlqBase * VlqBase * VlqBase)) THEN 3
    ELSE IF Lt32(v, VlqLimit) THEN 4 ELSE 5

WellFormedVlq(b) ==
    /\ Len(b) >= 1
    /\ b[Len(b)] < 128
    /\ \A i \in 1 .. Len(b) - 1 : b[i] >= 128

\* a value was written and read back
VlqRoundTripDone ==
    vlq # NULL /\ vlq.stage = "read" /\ vlq.size > 0

\* C12: every value up to 2^28 - 1 that WriteVariableLength writes is read
\* back by ReadVariableLength as the same value from exactly the bytes
\* written, and the bytes written are the shortest encoding: high bit set on
\* every byte but the last, one byte below 128, the single byte 0 for 0.
C12_VlqRoundTrip ==
    (VlqRoundTripDone /\ Lt32(vlq.value, VlqLimit)) =>
        /\ vlq.read.value = vlq.value
        /\ vlq.read.size = vlq.size
        /\ vlq.size = Len(vlq.buffer)
        /\ Len(vlq.buffer) = MinimalLength(vlq.value)
        /\ WellFormedVlq(vlq.buffer)
        /\ (vlq.value = Zero32 => vlq.buffer = <<0>>)

\* a four-byte value, the greatest one, was written and read back
C12_Witness ==
    /\ VlqRoundTripDone
    /\ vlq.value = Sub32(VlqLimit, FromNat(1))
    /\ vlq.buffer = <<255, 255, 255, VlqBase - 1>>
    /\ vlq.read.value = vlq.value

\* the place of the first byte below 128 of a buffer, 0 when there is none
FirstFinal(b) ==
    IF \E i \in 1 .. Len(b) : b[i] < 128
    THEN CHOOSE i \in 1 .. Len(b) : b[i] < 128 /\ \A j \in 1 .. i - 1 : b[j] >= 128
    ELSE 0

\* C13: ReadVariableLength reports failure when the buffer ends before a
\* byte below 0x80, and when the quantity is longer than four bytes.
C13_VlqRejectsMalformed ==
    (vlq # NULL /\ vlq.stage = "read") =>
        /\ FirstFinal(vlq.buffer) = 0 => vlq.read.size = -1
        /\ FirstFinal(vlq.buffer) > 4 => vlq.read.size = -1

\* ----------------------------------------------------------- event codec
Midi_Event_Type_Text == 1
Midi_Event_Type_ProgramName == 8
Midi_Event_Type_SequenceNumber == 0
Midi_Event_Type_ChannelPrefix == 32
Midi_Event_Type_MidiPort == 33
Midi_Event_Type_SMPTEoffset == 84
Midi_Event_Type_TimeSignature == 88
Midi_Event_Type_KeySignature == 89
Midi_Event_Type_SysEx == 127
Midi_Event_Type_SysEx2 == 240
Midi_Event_Type_PolyphonicKeyPressure == 160
Midi_Event_Type_ControlChange == 176
Midi_Event_Type_ChannelPressure == 208
Midi_Event_Type_PitchWheelChange == 224
MidiEventData_Text_Max_Length == 255
MetaPrefix == 255

\* Text .. ProgramName, SysEx and SysEx2 share read_data_Text / write_data_Text
TextTypes ==
    (Midi_Event_Type_Text .. Midi_Event_Type_ProgramName)
        \cup {Midi_Event_Type_SysEx, Midi_Event_Type_SysEx2}

\* the types InterfaceTable has an entry for
InterfaceTable ==
    TextTypes \cup
    {Midi_Event_Type_SequenceNumber, Midi_Event_Type_ChannelPrefix,
     Midi_Event_Type_MidiPort, Midi_Event_Type_EndOfTrack,
     Midi_Event_Type_SetTempo, Midi_Event_Type_SMPTEoffset,
     Midi_Event_Type_TimeSignature, Midi_Event_Type_KeySignature,
     Midi_Event_Type_NoteOn, Midi_Event_Type_NoteOff,
     Midi_Event_Type_PolyphonicKeyPressure, Midi_Event_Type_ControlChange,
     Midi_Event_Type_ProgramChange, Midi_Event_Type_ChannelPressure,
     Midi_Event_Type_PitchWheelChange}

\* memory that malloc or realloc returned and nothing has written yet
Uninit == [uninit |-> TRUE]
IsUninit(data) == "uninit" \in DOMAIN data

\* buffer[i] of a C buffer; beyond its end the read finds the byte g that
\* happens to lie in the heap there
ByteAt(buffer, i, g) == IF i < Len(buffer) THEN buffer[i + 1] ELSE g

\* sprintf("%.*s", len, ...): the characters before the first NUL, len at most
TextUpTo(buffer, pos, len, g) ==
    LET nul == {i \in 0 .. len - 1 : ByteAt(buffer, pos + i, g) = 0}
        n == IF nul = {} THEN len ELSE CHOOSE i \in nul : \A j \in nul : i <= j
    IN  [i \in 1 .. n |-> ByteAt(buffer, pos + i - 1, g)]

\* assert_len: a meta event whose length byte is not the one of its type is
\* left unread, and read_data returns -1
AssertLen(len, desired_len, size, data) ==
    IF len # desired_len
    THEN [n |-> -1, data |-> Uninit, used |-> 1]
    ELSE [n |-> size, data |-> data, used |-> size]

\* interface->read_data(&buffer[pos], statusByte, data): n is the return
\* value, used the number of bytes of the buffer the function looks at
read_data(buffer, pos, statusByte, type, g) ==
    LET B(i) == ByteAt(buffer, pos + i, g)
        channel == statusByte % 16
    IN  CASE type \in TextTypes ->
               IF B(0) > MidiEventData_Text_Max_Length - 1
               THEN [n |-> -1, data |-> Uninit, used |-> 1]
               ELSE LET text == TextUpTo(buffer, pos + 1, B(0), g) IN
                    [n |-> 1 + B(0),
                     data |-> [length |-> B(0), text |-> text],
                     used |-> 1 + (IF Len(text) < B(0) THEN Len(text) + 1 ELSE B(0))]
          [] type = Midi_Event_Type_SequenceNumber ->
               AssertLen(B(0), 2, 3, [number |-> B(1) * 256 + B(2)])
          [] type = Midi_Event_Type_ChannelPrefix ->
               AssertLen(B(0), 1, 2, [channel |-> B(1)])
          [] type = Midi_Event_Type_MidiPort ->
               AssertLen(B(0), 1, 2, [port |-> B(1)])
          [] type = Midi_Event_Type_EndOfTrack ->
               IF B(0) # 0 THEN [n |-> -1, data |-> NULL, used |-> 1]
               ELSE [n |-> 1, data |-> NULL, used |-> 1]
          [] type = Midi_Event_Type_SetTempo ->
               AssertLen(B(0), 3, 4, [tempo |-> U32(B(1), B(2) * 256 + B(3))])
          [] type = Midi_Event_Type_SMPTEoffset ->
               AssertLen(B(0), 5, 6,
                   [hr |-> B(1), mn |-> B(2), se |-> B(3), fr |-> B(4), ff |-> B(5)])
          [] type = Midi_Event_Type_TimeSignature ->
               AssertLen(B(0), 4, 5, [nn |-> B(1), dd |-> B(2), cc |-> B(3), bb |-> B(4)])
          [] type = Midi_Event_Type_KeySignature ->
               AssertLen(B(0), 2, 3, [sf |-> B(1), mi |-> B(2)])
          [] type \in {Midi_Event_Type_NoteOn, Midi_Event_Type_NoteOff} ->
               [n |-> 2,
                data |-> [channel |-> channel, key |-> B(0), velocity |-> B(1),
                          OnOff |-> statusByte - channel],
                used |-> 2]
          [] type = Midi_Event_Type_PolyphonicKeyPressure ->
               [n |-> 2, data |-> [channel |-> channel, key |-> B(0), pressure |-> B(1)],
                used |-> 2]
          [] type = Midi_Event_Type_ControlChange ->
               [n |-> 2, data |-> [channel |-> channel, control |-> B(0), value |-> B(1)],
                used |-> 2]
          [] type = Midi_Event_Type_ProgramChange ->
               [n |-> 1, data |-> [channel |-> channel, program |-> B(0)], used |-> 1]
          [] type = Midi_Event_Type_ChannelPressure ->
               [n |-> 1, data |-> [channel |-> channel, pressure |-> B(0)], used |-> 1]
          [] type = Midi_Event_Type_PitchWheelChange ->
               [n |-> 2, data |-> [channel |-> channel, wheel |-> B(0) + 128 * B(1)],
                used |-> 2]

\* a | b on bytes
RECURSIVE BitOr(_, _)
BitOr(a, b) ==
    IF a = 0 THEN b
    ELSE IF b = 0 THEN a
    ELSE (IF a % 2 = 1 \/ b % 2 = 1 THEN 1 ELSE 0) + 2 * BitOr(a \div 2, b \div 2)

\* a field of an event's data; data that was never written holds what the
\* heap held
Field(data, f, g) == IF IsUninit(data) THEN g ELSE data[f]

\* the len bytes memcpy takes from the text array: the text, its NUL, and
\* whatever the array held beyond it
TextBytes(data, g) ==
    IF IsUninit(data) THEN [i \in 1 .. g |-> g]
    ELSE [i \in 1 .. data.length |->
            IF i <= Len(data.text) THEN data.text[i]
            ELSE IF i = Len(data.text) + 1 THEN 0 ELSE g]

\* write_data_SMPTEoffset: writes nothing and returns 0
write_data_SMPTEoffset(event, g) == << >>

\* interface->write_data(&buffer[trackLen], event): the bytes written, as
\* many as the return value. The interface of an event that was never
\* created is not a pointer to a function: the call writes some byte, when
\* it returns at all.
write_data(event, g) ==
    LET type == event.type
        F(f) == Field(event.data, f, g)
    IN  CASE type = Midi_Event_Type_SysEx2 ->
               <<Midi_Event_Type_SysEx2, F("length")>> \o TextBytes(event.data, g)
          [] type \in TextTypes \ {Midi_Event_Type_SysEx2} ->
               <<MetaPrefix, type, F("length")>> \o TextBytes(event.data, g)
          [] type = Midi_Event_Type_SequenceNumber ->
               <<MetaPrefix, type, 2, (F("number") \div 256) % 256, F("number") % 256>>
          [] type = Midi_Event_Type_ChannelPrefix -> <<MetaPrefix, type, 1, F("channel")>>
          [] type = Midi_Event_Type_MidiPort -> <<MetaPrefix, type, 1, F("port")>>
          [] type = Midi_Event_Type_EndOfTrack -> <<MetaPrefix, type, 0>>
          [] type = Midi_Event_Type_SetTempo ->
               LET tempo == IF IsUninit(event.data) THEN U32(g, g * 256 + g)
                            ELSE event.data.tempo
               IN  <<MetaPrefix, type, 3, tempo[1] % 256, tempo[2] \div 256,
                     tempo[2] % 256>>
          [] type = Midi_Event_Type_SMPTEoffset -> write_data_SMPTEoffset(event, g)
          [] type = Midi_Event_Type_TimeSignature ->
               <<MetaPrefix, type, 4, F("nn"), F("dd"), F("cc"), F("bb")>>
          [] type = Midi_Event_Type_KeySignature ->
               <<MetaPrefix, type, 2, F("sf"), F("mi")>>
          [] type \in {Midi_Event_Type_NoteOn, Midi_Event_Type_NoteOff} ->
               <<BitOr(F("OnOff"), F("channel")), F("key"), F("velocity")>>
          [] type = Midi_Event_Type_PolyphonicKeyPressure ->
               <<BitOr(type, F("channel")), F("key"), F("pressure")>>
          [] type = Midi_Event_Type_ControlChange ->
               <<BitOr(type, F("channel")), F("control"), F("value")>>
          [] type = Midi_Event_Type_ProgramChange ->
               <<BitOr(type, F("channel")), F("program")>>
          [] type = Midi_Event_Type_ChannelPressure ->
               <<BitOr(type, F("channel")), F("pressure")>>
          [] type = Midi_Event_Type_PitchWheelChange ->
               <<BitOr(type, F("channel")), F("wheel") % 128, (F("wheel") \div 128) % 256>>
          [] OTHER -> <<g>>

\* ---------------------------------------------------------- track reader
\* the slot realloc added to the list and MidiEvent_Create did not fill
UninitEvent == [deltaTime |-> Zero32, type |-> -1, data |-> Uninit]

\* a C array of n elements, indexed from 0
Array(q) == [i \in 0 .. Len(q) - 1 |-> q[i + 1]]
Elements(a, n) == [i \in 1 .. n |-> a[i - 1]]

Max2(a, b) == IF a > b THEN a ELSE b

\* MidiTrack_Read: the do-while loop at offset read, with the events read so
\* far; top is the number of bytes of the buffer looked at so far. A turn
\* that ends at the offset it began at is repeated for ever, one more event
\* allocated each time: hang tells that the loop does not come to its end.
RECURSIVE MidiTrack_ReadLoop(_, _, _, _, _, _, _)

\* one turn of the loop after its delta time, which ended at offset r1
MidiTrack_ReadEvent(buffer, length, g, read, running_status, events, top, deltaTime, r1) ==
    LET first == ByteAt(buffer, r1, g)
        meta == first = MetaPrefix
        running == ~meta /\ first < 128
        statusByte == IF meta THEN ByteAt(buffer, r1 + 1, g)
                      ELSE IF running THEN running_status
                      ELSE first
        r2 == IF meta THEN r1 + 2 ELSE IF running THEN r1 ELSE r1 + 1
        status == IF meta \/ running THEN running_status ELSE first
        type == IF meta THEN statusByte ELSE statusByte - (statusByte % 16)
        rd == read_data(buffer, r2, statusByte, type, g)
        event == [deltaTime |-> deltaTime, type |-> type, data |-> rd.data]
        r3 == r2 + rd.n
        seen == Max2(top, IF meta THEN r1 + 2 ELSE r1 + 1)
    IN  IF type \notin InterfaceTable
        THEN [events |-> Append(events, UninitEvent), top |-> seen, hang |-> FALSE]
        ELSE IF r3 <= read /\ r3 < length
        THEN [events |-> Append(events, event), top |-> Max2(seen, r2 + rd.used),
              hang |-> TRUE]
        ELSE IF r3 < length
        THEN MidiTrack_ReadLoop(buffer, length, g, r3, status,
                                Append(events, event), Max2(seen, r2 + rd.used))
        ELSE [events |-> Append(events, event), top |-> Max2(seen, r2 + rd.used),
              hang |-> FALSE]

MidiTrack_ReadLoop(buffer, length, g, read, running_status, events, top) ==
    LET vl == ReadVariableLength(buffer, read, length - read) IN
    IF vl.size <= 0
    THEN [events |-> events, top |-> top, hang |-> FALSE]
    ELSE MidiTrack_ReadEvent(buffer, length, g, read, running_status, events, top,
                             vl.value, read + vl.size)

\* MidiTrack_Read(buffer, length, track): the events are added to the ones
\* the track holds; overread tells that the function read beyond
\* buffer[length - 1]
MidiTrack_Read(buffer, length, track, g) ==
    LET r == MidiTrack_ReadLoop(buffer, length, g, 0, 0,
                                Elements(track.Events, track.NumEvents), 0) IN
    [track |-> [NumEvents |-> Len(r.events), Events |-> Array(r.events)],
     overread |-> r.top > length, hang |-> r.hang]

\* ------------------------------------------------------------ file reader
MIDI_CHUNK_SIZE == 4
MIDI_CHUNK_LEN_BYTES == 4
MIDI_CHUNK_HEADER_LEN == 6
MIDI_FORMAT_SINGLE_TRACK == 0
MIDI_CHUNK_HEADER == <<77, 84, 104, 100>>
MIDI_CHUNK_TRACK == <<77, 84, 114, 107>>

u16fromarray(arr) == arr[1] * 256 + arr[2]
u32fromarray(arr) == U32(arr[1] * 256 + arr[2], arr[3] * 256 + arr[4])
u16toarray(value) == <<(value \div 256) % 256, value % 256>>
u32toarray(value) ==
    <<value[1] \div 256, value[1] % 256, value[2] \div 256, value[2] % 256>>

\* the n bytes of the file from offset pos on
Slice(bytes, pos, n) == SubSeq(bytes, pos + 1, pos + n)

\* line 766: the file before any chunk is read
EmptyFile == [Format |-> 0, nTrks |-> 0, PulsesPerQuarterNote |-> 0, Tracks |-> << >>]

\* calloc(nTrks, sizeof(MidiTrack_t))
ZeroedTracks(nTrks) == [t \in 0 .. nTrks - 1 |-> [NumEvents |-> 0, Events |-> << >>]]

\* MidiFile_Open: the while loop at offset pos of the file. allocated tells
\* that mf->Tracks is not NULL; g is the value of the bytes the function
\* reads beyond a buffer, z tells that an allocation of zero bytes returns
\* NULL. The result is the file returned, NULL after "goto error"; hang
\* tells that the call does not return.
RECURSIVE MidiFile_OpenLoop(_, _, _, _, _, _, _, _)
MidiFile_OpenLoop(bytes, pos, mf, allocated, trackNumber, g, z, overread) ==
    LET left == Len(bytes) - pos
        chunktype == Slice(bytes, pos, MIDI_CHUNK_SIZE)
        chunklength ==
            u32fromarray([i \in 1 .. MIDI_CHUNK_LEN_BYTES |->
                            ByteAt(bytes, pos + MIDI_CHUNK_SIZE + i - 1, g)])
        data == pos + MIDI_CHUNK_SIZE + MIDI_CHUNK_LEN_BYTES
        header == Slice(bytes, data, MIDI_CHUNK_HEADER_LEN)
        Format == u16fromarray(SubSeq(header, 1, 2))
        nTrks == u16fromarray(SubSeq(header, 3, 4))
        ppq == u16fromarray(SubSeq(header, 5, 6))
        fail == [file |-> NULL, overread |-> overread, hang |-> FALSE]
        rd == MidiTrack_Read(Slice(bytes, data, chunklength[2]), chunklength[2],
                             mf.Tracks[trackNumber], g)
    IN  IF left < MIDI_CHUNK_SIZE
        THEN [file |-> mf, overread |-> overread, hang |-> FALSE]
        ELSE IF chunktype = MIDI_CHUNK_HEADER
        THEN IF \/ chunklength # FromNat(MIDI_CHUNK_HEADER_LEN)
                \/ Len(bytes) - data < MIDI_CHUNK_HEADER_LEN
                \/ (Format = MIDI_FORMAT_SINGLE_TRACK /\ nTrks # 1)
                \/ (nTrks = 0 /\ z)
             THEN fail
             ELSE MidiFile_OpenLoop(bytes, data + MIDI_CHUNK_HEADER_LEN,
                      [Format |-> Format, nTrks |-> nTrks,
                       PulsesPerQuarterNote |-> ppq, Tracks |-> ZeroedTracks(nTrks)],
                      TRUE, trackNumber, g, z, overread)
        ELSE IF chunktype = MIDI_CHUNK_TRACK
        THEN IF \/ ~allocated
                \/ trackNumber >= mf.nTrks
                \/ (chunklength = Zero32 /\ z)
                \/ chunklength[1] # 0
                \/ Max2(0, Len(bytes) - data) < chunklength[2]
             THEN fail
             ELSE IF rd.hang
             THEN [file |-> NULL, overread |-> overread \/ rd.overread, hang |-> TRUE]
             ELSE MidiFile_OpenLoop(bytes, data + chunklength[2],
                      [mf EXCEPT !.Tracks[trackNumber] = rd.track],
                      allocated, (trackNumber + 1) % 256, g, z,
                      overread \/ rd.overread)
        ELSE fail

\* the file MidiFile_Open returns for the bytes of a file
MidiFile_OpenBytes(bytes, g, z) ==
    MidiFile_OpenLoop(bytes, 0, EmptyFile, FALSE, 0, g, z, FALSE)

\* ------------------------------------------------------------ file writer
\* lines 917-929: the buffer of a track after its events from e on
RECURSIVE SaveEvents(_, _, _)
SaveEvents(track, e, g) ==
    IF e >= track.NumEvents THEN << >>
    ELSE WriteVariableLength(5, track.Events[e].deltaTime).bytes
             \o write_data(track.Events[e], g)
             \o SaveEvents(track, e + 1, g)

\* lines 909-938: the chunks of the tracks from t on
RECURSIVE SaveTracks(_, _, _)
SaveTracks(save, t, g) ==
    IF t >= save.nTrks THEN << >>
    ELSE LET buffer == SaveEvents(save.Tracks[t], 0, g) IN
         MIDI_CHUNK_TRACK \o u32toarray(FromNat(Len(buffer))) \o buffer
             \o SaveTracks(save, t + 1, g)

\* lines 914-928: the buffer of a track is allocated with 1024 bytes and
\* grows by 1024 before an event when less than 128 bytes are free; the
\* result tells that some event from e on is written beyond the allocation
RECURSIVE SaveOverflows(_, _, _, _, _)
SaveOverflows(track, e, allocSize, trackLen, g) ==
    IF e >= track.NumEvents THEN FALSE
    ELSE LET grown == IF allocSize - trackLen < 128 THEN allocSize + 1024
                      ELSE allocSize
             size == Len(WriteVariableLength(5, track.Events[e].deltaTime).bytes)
                         + Len(write_data(track.Events[e], g))
         IN  \/ trackLen + size > grown
             \/ SaveOverflows(track, e + 1, grown, trackLen + size, g)

\* MidiFile_Save writes beyond the buffer of one of the tracks
MidiFile_SaveOverflows(save, g) ==
    \E t \in 0 .. save.nTrks - 1 : SaveOverflows(save.Tracks[t], 0, 1024, 0, g)

\* the bytes MidiFile_Save writes for a file
MidiFile_SaveBytes(save, g) ==
    MIDI_CHUNK_HEADER \o <<0, 0, 0, 6>>
        \o u16toarray(save.Format) \o u16toarray(save.nTrks)
        \o u16toarray(save.PulsesPerQuarterNote)
        \o SaveTracks(save, 0, g)

\* ------------------------------------------------------------- the files
MaxFragments == 2
MaxChunks == 3

\* one event of a track as it lies in a file, delta time first: the channel
\* events, a note under running status, a two-byte delta, and the meta events
EventFragments ==
    {<<0, 144, 60, 64>>, <<96, 128, 60, 64>>, <<0, 60, 0>>,
     <<129, 0, 192, 5>>, <<0, 161, 60, 10>>, <<0, 176, 7, 100>>,
     <<0, 208, 50>>, <<0, 224, 0, 64>>, <<0, 240, 1, 9>>,
     <<0, 255, 0, 2, 0, 1>>, <<0, 255, 3, 2, 72, 105>>, <<0, 255, 32, 1, 1>>,
     <<0, 255, 33, 1, 1>>, <<0, 255, 47, 0>>, <<0, 255, 81, 3, 7, 161, 32>>,
     <<0, 255, 84, 5, 1, 2, 3, 4, 5>>, <<0, 255, 88, 4, 4, 2, 24, 8>>,
     <<0, 255, 89, 2, 2, 0>>, <<0, 255, 127, 1, 9>>}

RECURSIVE Flatten(_)
Flatten(q) == IF q = << >> THEN << >> ELSE Head(q) \o Flatten(Tail(q))

SeqsUpTo(S, n) == UNION {[1 .. k -> S] : k \in 1 .. n}

HeaderChunk(format, ntrks, division) ==
    MIDI_CHUNK_HEADER \o <<0, 0, 0, 6>> \o u16toarray(format)
        \o u16toarray(ntrks) \o u16toarray(division)
TrackChunk(payload) ==
    MIDI_CHUNK_TRACK \o u32toarray(FromNat(Len(payload))) \o payload
UnknownChunk == <<88, 70, 73, 72, 0, 0, 0, 2, 1, 2>>

\* the track of scenario S1 and the file of scenario S1, whose MTrk length
\* field counts one byte less than the track has
S1Track == <<0, 144, 60, 64, 96, 128, 60, 64, 0, 255, 47, 0>>
S1Input ==
    HeaderChunk(1, 1, 96) \o MIDI_CHUNK_TRACK \o <<0, 0, 0, 11>> \o S1Track

\* a header of two tracks, a header with division 0, a header with an SMPTE
\* division, two tracks and a chunk of another kind
ChunkAlphabet ==
    {HeaderChunk(1, 2, 96), HeaderChunk(1, 1, 0), HeaderChunk(1, 1, 59176),
     TrackChunk(S1Track), TrackChunk(<<0, 255, 47, 0>>), UnknownChunk}

\* one-track files over the event fragments, files over the chunks, and S1
CodecInputs ==
    {HeaderChunk(1, 1, 96) \o TrackChunk(Flatten(q)) :
         q \in SeqsUpTo(EventFragments, MaxFragments)}
    \cup {Flatten(q) : q \in SeqsUpTo(ChunkAlphabet, MaxChunks)}
    \cup {S1Input}

FileA == "a.mid"
FileB == "b.mid"

\* what a read beyond a buffer can find there
GarbageBytes == {0, 1, 255}

InitFiles ==
    /\ midi = NULL
    /\ InitLocals
    /\ \E bytes \in CodecInputs : disk = [n \in {FileA} |-> bytes]
    /\ handle = << >>
    /\ retval = NULL
    /\ vlq = NULL

\* MidiFile_Open(filename) for a file of the disk not opened before
MidiFile_Open ==
    /\ \E name \in DOMAIN disk \ DOMAIN handle :
           \E g \in GarbageBytes, z \in BOOLEAN :
               handle' = [n \in DOMAIN handle \cup {name} |->
                            IF n # name THEN handle[n]
                            ELSE MidiFile_OpenBytes(disk[name], g, z)]
    /\ UNCHANGED <<midi, pc, start_usec, cbFunc, playVars, list, numEvents,
                   calls, synth, sleeps, disk, retval, vlq>>

\* the file holds an event that MidiEvent_Create did not fill
HasUninitEvent(file) ==
    \E t \in 0 .. file.nTrks - 1 :
        \E e \in 0 .. file.Tracks[t].NumEvents - 1 :
            file.Tracks[t].Events[e] = UninitEvent

\* MidiFile_Save(FileB, mf) for the file mf that MidiFile_Open(FileA) gave;
\* a call that ends in a write through a wild pointer, or that has written
\* beyond its buffer, may leave the file created and empty
MidiFile_Save ==
    /\ FileA \in DOMAIN handle
    /\ handle[FileA].file # NULL
    /\ FileB \notin DOMAIN disk
    /\ \E g \in GarbageBytes :
           \E written \in {MidiFile_SaveBytes(handle[FileA].file, g)} \cup
                           (IF \/ HasUninitEvent(handle[FileA].file)
                               \/ MidiFile_SaveOverflows(handle[FileA].file, g)
                            THEN {<< >>} ELSE {}) :
               disk' = [n \in DOMAIN disk \cup {FileB} |->
                          IF n = FileB THEN written ELSE disk[n]]
    /\ UNCHANGED <<midi, pc, start_usec, cbFunc, playVars, list, numEvents,
                   calls, synth, sleeps, handle, retval, vlq>>

NextFiles == MidiFile_Open \/ MidiFile_Save

SpecFiles == InitFiles /\ [][NextFiles]_vars

\* a file was opened, saved and the saved file opened
Reopened == FileA \in DOMAIN handle /\ FileB \in DOMAIN handle /\ FileB \in DOMAIN disk

\* the first file was read within its buffers and every track of it holds
\* an event
CleanlyOpened ==
    /\ ~handle[FileA].overread
    /\ \A t \in 0 .. handle[FileA].file.nTrks - 1 :
           handle[FileA].file.Tracks[t].NumEvents > 0

\* C11: a file that MidiFile_Open produced, saved with MidiFile_Save and
\* opened again, gives a file equal to the first: same format, ppq and
\* tracks, and in every track the same events with the same delta time,
\* type and data. (Stated for the files read within their buffers whose
\* tracks all hold an event.)
C11_StructuralRoundTrip ==
    (Reopened /\ CleanlyOpened) => handle[FileB].file = handle[FileA].file

\* MidiFile_Open has returned for the file a.mid
OpenedA == FileA \in DOMAIN handle /\ ~handle[FileA].hang

\* the file of scenario S1
S1File ==
    [Format |-> 1, nTrks |-> 1, PulsesPerQuarterNote |-> 96,
     Tracks |-> [t \in {0} |->
        [NumEvents |-> 3,
         Events |-> Array(<<
            MidiEvent(FromNat(0), NoteEvent(Midi_Event_Type_NoteOn, 0, 60, 64)),
            MidiEvent(FromNat(96), NoteEvent(Midi_Event_Type_NoteOff, 0, 60, 64)),
            MidiEvent(FromNat(0), EndOfTrackEvent)>>)]]]

\* C14: opening the 34 bytes of scenario S1 gives a file of format 1, one
\* track and ppq 96 whose track holds exactly NoteOn ch0 key60 v64 at delta
\* 0, NoteOff ch0 key60 v64 at delta 96 and EndOfTrack at delta 0.
C14_ScenarioS1 ==
    (FileA \in DOMAIN handle /\ disk[FileA] = S1Input) =>
        /\ ~handle[FileA].hang
        /\ handle[FileA].file = S1File

\* the chunk lists of the files: a list that begins with the header of two
\* tracks and goes on with tracks and chunks of another kind
ChunkLists == SeqsUpTo(ChunkAlphabet, MaxChunks)
IsTrackChunk(c) == SubSeq(c, 1, MIDI_CHUNK_SIZE) = MIDI_CHUNK_TRACK
IsHeaderChunk(c) == SubSeq(c, 1, MIDI_CHUNK_SIZE) = MIDI_CHUNK_HEADER
Headers(q) == {i \in 1 .. Len(q) : IsHeaderChunk(q[i])}
Known(q) == SelectSeq(q, LAMBDA c : c # UnknownChunk)

\* C15: a chunk whose tag is neither MThd nor MTrk is skipped: the load
\* succeeds and gives the file that the other chunks alone give.
C15_UnknownChunkSkipped ==
    \A q \in ChunkLists :
        (/\ OpenedA
         /\ disk[FileA] = Flatten(q)
         /\ q[1] = HeaderChunk(1, 2, 96)
         /\ \A i \in 2 .. Len(q) : IsTrackChunk(q[i]) \/ q[i] = UnknownChunk
         /\ \E i \in 2 .. Len(q) : q[i] = UnknownChunk
         /\ Len(Known(q)) <= 3) =>
            /\ handle[FileA].file # NULL
            /\ handle[FileA].file = MidiFile_OpenBytes(Flatten(Known(q)), 0, FALSE).file

\* C16: a file whose first chunk is an MTrk, and a file with a second MThd
\* after the first, are not loaded.
C16_OneHeaderFirst ==
    \A q \in ChunkLists :
        (/\ OpenedA
         /\ disk[FileA] = Flatten(q)
         /\ (IsTrackChunk(q[1]) \/ (IsHeaderChunk(q[1]) /\ Headers(q) # {1}))) =>
            handle[FileA].file = NULL

\* C17: every file that MidiFile_Open returns has a PPQ from 1 to 32767.
C17_PpqPositive ==
    (OpenedA /\ handle[FileA].file # NULL) =>
        handle[FileA].file.PulsesPerQuarterNote \in 1 .. 32767

\* ========================================================== transposition
MaxTransposes == 1

\* an entry of Midi_Transposition_Table; sf is a uint8_t
TranspositionData(sf, mi, tranposeDelta) ==
    [sf |-> sf % 256, mi |-> mi, tranposeDelta |-> tranposeDelta]

Midi_Transposition_Table == <<
    TranspositionData(7, 0, 1), TranspositionData(6, 0, 6),
    TranspositionData(5, 0, 11), TranspositionData(4, 0, 4),
    TranspositionData(3, 0, 9), TranspositionData(2, 0, 2),
    TranspositionData(1, 0, 7), TranspositionData(0, 0, 0),
    TranspositionData(-1, 0, 5), TranspositionData(-2, 0, 10),
    TranspositionData(-3, 0, 3), TranspositionData(-4, 0, 8),
    TranspositionData(-5, 0, 1), TranspositionData(-6, 0, 6),
    TranspositionData(-7, 0, 11),
    TranspositionData(7, 1, 10), TranspositionData(6, 1, 3),
    TranspositionData(5, 1, 8), TranspositionData(4, 1, 1),
    TranspositionData(3, 1, 6), TranspositionData(2, 1, 11),
    TranspositionData(1, 1, 4), TranspositionData(0, 1, 9),
    TranspositionData(-1, 1, 2), TranspositionData(-2, 1, 7),
    TranspositionData(-3, 1, 0), TranspositionData(-4, 1, 5),
    TranspositionData(-5, 1, 10), TranspositionData(-6, 1, 3),
    TranspositionData(-7, 1, 8)>>

KeySignatureEvent(sf, mi) ==
    [type |-> Midi_Event_Type_KeySignature, data |-> [sf |-> sf % 256, mi |-> mi]]

\* Midi_GetKeySignatureTranspositionInfo: the first entry of the table with
\* the sf and mi of the key signature
Midi_GetKeySignatureTranspositionInfo(ks) ==
    LET hits == {i \in 1 .. Len(Midi_Transposition_Table) :
                    /\ Midi_Transposition_Table[i].sf = ks.sf
                    /\ Midi_Transposition_Table[i].mi = ks.mi}
    IN  IF ks = NULL \/ hits = {} THEN NULL
        ELSE Midi_Transposition_Table[CHOOSE i \in hits : \A j \in hits : i <= j]

\* a search that keeps the last key signature of the file
RECURSIVE Midi_GetKeySignatureLast(_, _, _)
Midi_GetKeySignatureLast(file, t, e) ==
    IF t >= file.nTrks THEN NULL
    ELSE IF e >= file.Tracks[t].NumEvents
    THEN Midi_GetKeySignatureLast(file, t + 1, 0)
    ELSE LET later == Midi_GetKeySignatureLast(file, t, e + 1) IN
         IF later # NULL THEN later
         ELSE IF MidiEvent_GetType(file.Tracks[t].Events[e]) = Midi_Event_Type_KeySignature
         THEN EventRef(t, e)
         ELSE NULL

\* Midi_GetKeySignature: the loops at track t, event e; the result points to
\* the event whose data is returned
RECURSIVE Midi_GetKeySignature(_, _, _)
Midi_GetKeySignature(file, t, e) ==
    IF t >= file.nTrks THEN NULL
    ELSE IF e >= file.Tracks[t].NumEvents THEN Midi_GetKeySignature(file, t + 1, 0)
    ELSE IF MidiEvent_GetType(file.Tracks[t].Events[e]) = Midi_Event_Type_KeySignature
    THEN EventRef(t, e)
    ELSE Midi_GetKeySignature(file, t, e + 1)

\* a test that lets every pair of keys pass
CrossesModeNever(newKey, oldKey) == FALSE

\* line 1525
CrossesMode(newKey, oldKey) == newKey.mi # oldKey.mi

\* line 1543: key += delta on a uint8_t
ShiftKey(key, delta) == (key + delta) % 256

IsNote(event) ==
    MidiEvent_GetType(event) \in {Midi_Event_Type_NoteOff, Midi_Event_Type_NoteOn}

\* Midi_Transpose(file, newKey): the file after the call, the value
\* returned, and whether a message went to stderr
Midi_TransposeFile(file, newKey) ==
    LET ref == Midi_GetKeySignature(file, 0, 0)
        midi_ks == IF ref = NULL THEN NULL
                   ELSE file.Tracks[ref.track].Events[ref.index].data
        oldKey == Midi_GetKeySignatureTranspositionInfo(midi_ks)
        delta == newKey.tranposeDelta - oldKey.tranposeDelta
        shifted ==
            [file EXCEPT !.Tracks = [t \in DOMAIN file.Tracks |->
                [file.Tracks[t] EXCEPT !.Events = [e \in DOMAIN file.Tracks[t].Events |->
                    LET event == file.Tracks[t].Events[e] IN
                    IF IsNote(event)
                    THEN [event EXCEPT !.data.key = ShiftKey(event.data.key, delta)]
                    ELSE event]]]]
    IN  IF newKey = NULL \/ oldKey = NULL
        THEN [file |-> file, value |-> 0, error |-> TRUE]
        ELSE IF CrossesMode(newKey, oldKey)
        THEN [file |-> file, value |-> 0, error |-> TRUE]
        ELSE [file |-> [shifted EXCEPT
                          !.Tracks[ref.track].Events[ref.index].data.mi = newKey.mi,
                          !.Tracks[ref.track].Events[ref.index].data.sf = newKey.sf],
              value |-> delta, error |-> FALSE]

\* the keys asked for: B, D and C major, A and C minor, and no key
TargetKeys ==
    {Midi_Transposition_Table[i] : i \in {3, 6, 8, 23, 26}} \cup {NULL}

\* a caller transposes the file
Midi_Transpose ==
    /\ retval.calls < MaxTransposes
    /\ \E newKey \in TargetKeys :
           LET r == Midi_TransposeFile(midi, newKey) IN
           /\ midi' = r.file
           /\ retval' = [calls |-> retval.calls + 1, newKey |-> newKey,
                         value |-> r.value, error |-> r.error]
    /\ UNCHANGED <<pc, start_usec, cbFunc, playVars, list, numEvents, calls,
                   synth, sleeps, disk, handle, vlq>>

\* files with a key signature of C major, of A minor or of no key of the
\* table, notes at both ends and in the middle of the key range, and an
\* event of another type
TransposeBodies ==
    {KeySignatureEvent(0, 0), KeySignatureEvent(0, 1), KeySignatureEvent(8, 0),
     NoteEvent(Midi_Event_Type_NoteOn, 0, 0, 64),
     NoteEvent(Midi_Event_Type_NoteOn, 0, 127, 64),
     NoteEvent(Midi_Event_Type_NoteOff, 1, 60, 64),
     ProgramChangeEvent(0, 5)}

InitTranspose ==
    /\ FileIn(midi, {StandardPPQ}, Shapes(MaxTracks, MaxSoloEvents),
              TransposeBodies, {0})
    /\ InitLocals
    /\ disk = << >>
    /\ handle = << >>
    /\ retval = [calls |-> 0, newKey |-> NULL, value |-> 0, error |-> FALSE]
    /\ vlq = NULL

NextTranspose == Midi_Transpose

SpecTranspose == InitTranspose /\ [][NextTranspose]_vars

\* ------------------------------------------------ reading a transposition
EventAt(file, r) == file.Tracks[r[1]].Events[r[2]]
EventPlaces(file) ==
    {<<t, e>> \in (0 .. file.nTrks - 1) \X (0 .. MaxEvents) :
        e < file.Tracks[t].NumEvents}
KsPlaces(file) ==
    {r \in EventPlaces(file) : EventAt(file, r).type = Midi_Event_Type_KeySignature}
NotePlaces(file) ==
    {r \in EventPlaces(file) :
        EventAt(file, r).type \in {Midi_Event_Type_NoteOn, Midi_Event_Type_NoteOff}}

\* the first key signature in track order, then event order
FirstKs(file) ==
    CHOOSE r \in KsPlaces(file) :
        \A q \in KsPlaces(file) : r[1] < q[1] \/ (r[1] = q[1] /\ r[2] <= q[2])

TableKeys == {Midi_Transposition_Table[i] : i \in 1 .. Len(Midi_Transposition_Table)}
KeysOf(ks) == {k \in TableKeys : k.sf = ks.sf /\ k.mi = ks.mi}

\* the file has a first key signature and the table holds its key
HasSourceKey(file) ==
    KsPlaces(file) # {} /\ KeysOf(EventAt(file, FirstKs(file)).data) # {}
SourceKey(file) == CHOOSE k \in KeysOf(EventAt(file, FirstKs(file)).data) : TRUE

\* this step is a call of Midi_Transpose
TransposeStep == retval'.calls = retval.calls + 1

\* C18: a call of Midi_Transpose with a target of the other mode than the
\* file's first key signature, or on a file without a key signature or with
\* one that is not in the table, reports an error, returns 0 and leaves the
\* file, every note key and every key signature, as it was.
C18_RejectsModeCrossing ==
    [][(/\ TransposeStep
        /\ \/ ~HasSourceKey(midi)
           \/ (retval'.newKey # NULL /\ retval'.newKey.mi # SourceKey(midi).mi)) =>
            /\ retval'.error
            /\ retval'.value = 0
            /\ midi' = midi]_vars

\* a file in C major with a note was asked to go to a minor key and refused
C18_Witness ==
    /\ retval.calls = 1
    /\ retval.error
    /\ retval.newKey # NULL
    /\ retval.newKey.mi = 1
    /\ HasSourceKey(midi)
    /\ SourceKey(midi).mi = 0
    /\ NotePlaces(midi) # {}

CMajor == TranspositionData(0, 0, 0)
DMajor == TranspositionData(2, 0, 2)

\* C19: a call of Midi_Transpose with a target of the mode of the file's
\* key succeeds; it returns delta = target delta - source delta, adds delta
\* to the key of every NoteOn and NoteOff (in the 8 bits of the key field),
\* changes nothing else of any event, and writes the target's sf and mi into
\* the first key signature; from C major to D major delta is 2 and the key
\* signature ends as sf 2, mi 0.
C19_TransposeShiftsKeys ==
    [][(/\ TransposeStep
        /\ HasSourceKey(midi)
        /\ retval'.newKey # NULL
        /\ retval'.newKey.mi = SourceKey(midi).mi) =>
            LET newKey == retval'.newKey
                delta == newKey.tranposeDelta - SourceKey(midi).tranposeDelta
            IN  /\ ~retval'.error
                /\ retval'.value = delta
                /\ [midi' EXCEPT !.Tracks = midi.Tracks] = midi
                /\ \A t \in 0 .. midi.nTrks - 1 :
                       midi'.Tracks[t].NumEvents = midi.Tracks[t].NumEvents
                /\ \A r \in EventPlaces(midi) :
                       LET a == EventAt(midi, r)
                           b == EventAt(midi', r)
                       IN  IF r \in NotePlaces(midi)
                           THEN /\ b = [a EXCEPT !.data.key = b.data.key]
                                /\ b.data.key = (a.data.key + delta) % 256
                           ELSE IF r = FirstKs(midi)
                           THEN b = [a EXCEPT !.data = [sf |-> newKey.sf, mi |-> newKey.mi]]
                           ELSE b = a
                /\ (SourceKey(midi) = CMajor /\ newKey = DMajor) =>
                       /\ delta = 2
                       /\ EventAt(midi', FirstKs(midi)).data = [sf |-> 2, mi |-> 0]]_vars

\* a file went from C major to D major: the call returned 2, the key
\* signature reads sf 2, mi 0 and a note that was at key 0 is at key 2
C19_Witness ==
    /\ retval.calls = 1
    /\ ~retval.error
    /\ retval.newKey = DMajor
    /\ retval.value = 2
    /\ KsPlaces(midi) # {}
    /\ EventAt(midi, FirstKs(midi)).data = [sf |-> 2, mi |-> 0]
    /\ \E r \in NotePlaces(midi) : EventAt(midi, r).data.key = 2

\* C20: every NoteOn and NoteOff key of a transposed file is a MIDI key, 0
\* to 127.
C20_KeysStayInRange ==
    \A r \in NotePlaces(midi) : EventAt(midi, r).data.key \in 0 .. 127

\* ============================================ the tracks of a saved file
\* the bodies of the MTrk chunks of a file MidiFile_Save wrote, from offset
\* pos on
RECURSIVE SavedTrackBodies(_, _)
SavedTrackBodies(bytes, pos) ==
    IF pos + MIDI_CHUNK_SIZE + MIDI_CHUNK_LEN_BYTES > Len(bytes) THEN << >>
    ELSE LET n == ToNat(u32fromarray(Slice(bytes, pos + MIDI_CHUNK_SIZE,
                                           MIDI_CHUNK_LEN_BYTES)))
             data == pos + MIDI_CHUNK_SIZE + MIDI_CHUNK_LEN_BYTES
         IN  <<Slice(bytes, data, n)>> \o SavedTrackBodies(bytes, data + n)

EndOfTrackBytes == <<MetaPrefix, Midi_Event_Type_EndOfTrack, 0>>

EndsWithEndOfTrack(body) ==
    /\ Len(body) >= Len(EndOfTrackBytes)
    /\ SubSeq(body, Len(body) - Len(EndOfTrackBytes) + 1, Len(body)) = EndOfTrackBytes

\* MidiFile_Save has written the file b.mid
Saved == FileB \in DOMAIN disk /\ disk[FileB] # << >>

\* C21: every track chunk of a file that MidiFile_Save wrote ends with the
\* bytes FF 2F 00 of an EndOfTrack event, whatever the last event of the
\* track in memory is.
C21_SavedTracksEndWithEndOfTrack ==
    Saved =>
        LET bodies == SavedTrackBodies(disk[FileB], Len(HeaderChunk(0, 0, 0))) IN
        \A i \in 1 .. Len(bodies) : EndsWithEndOfTrack(bodies[i])

\* ================================================= the tracks of a file
MaxTrackFragments == 3
MaxCutFragments == 1

\* events as they lie in a track: a NoteOn, a note under running status, a
\* MidiPort meta event, a SysEx event, an EndOfTrack, a SetTempo, a SetTempo
\* and a SequenceNumber whose length byte is not the one of their type, and
\* a meta event of a type without an interface
TrackFragments ==
    {<<0, 144, 60, 64>>, <<0, 62, 0>>, <<0, 255, 33, 1, 1>>, <<0, 240, 1, 9>>,
     <<0, 255, 47, 0>>, <<0, 255, 81, 3, 7, 161, 32>>, <<0, 255, 81, 2, 7, 161>>,
     <<0, 255, 0, 1, 5>>, <<0, 255, 9, 0>>}

\* a channel or meta fragment cut short: the chunk ends inside the event
CutFragments ==
    UNION {{SubSeq(f, 1, n) : n \in 1 .. Len(f) - 1} :
           f \in {g \in TrackFragments : g[2] # Midi_Event_Type_SysEx2}}

\* the file of one track that holds the fragments of q
OneTrackFile(q) == HeaderChunk(1, 1, 96) \o TrackChunk(Flatten(q))

\* files of one track: whole events, and whole events with a cut one behind
TrackInputs ==
    {OneTrackFile(q) : q \in SeqsUpTo(TrackFragments, MaxTrackFragments)}
    \cup {OneTrackFile(<<c>>) : c \in CutFragments}
    \cup {OneTrackFile(q \o <<c>>) :
              q \in SeqsUpTo(TrackFragments, MaxCutFragments), c \in CutFragments}

InitTracks ==
    /\ midi = NULL
    /\ InitLocals
    /\ \E bytes \in TrackInputs : disk = [n \in {FileA} |-> bytes]
    /\ handle = << >>
    /\ retval = NULL
    /\ vlq = NULL

SpecTracks == InitTracks /\ [][NextFiles]_vars

\* the events MidiFile_Open returned for the track of a.mid
Loaded == OpenedA /\ handle[FileA].file # NULL

\* ... and no byte was read beyond a track's chunk
LoadedWithin == Loaded /\ ~handle[FileA].overread
LoadedPlaces ==
    UNION {{<<t, e>> : e \in 0 .. handle[FileA].file.Tracks[t].NumEvents - 1} :
           t \in 0 .. handle[FileA].file.nTrks - 1}
LoadedEvent(r) == EventAt(handle[FileA].file, r)

\* the type a status byte stands for
StatusType(b) == b - (b % 16)

\* fragments that begin with a channel status, with FF or F0, with a data byte
ChannelFragments == {f \in TrackFragments : f[2] \in 128 .. 239}
ClearingFragments == {f \in TrackFragments : f[2] \in {MetaPrefix, Midi_Event_Type_SysEx2}}
DataFragments == {f \in TrackFragments : f[2] < 128}

\* C22: a data byte in status position right after a meta event or a SysEx
\* event is not decoded as an event of the channel status that was in
\* effect before that event.
C22_RunningStatusCleared ==
    \A c \in ChannelFragments, m \in ClearingFragments, d \in DataFragments :
        (Loaded /\ disk[FileA] = OneTrackFile(<<c, m, d>>)) =>
            ~(/\ <<0, 2>> \in LoadedPlaces
              /\ LoadedEvent(<<0, 2>>).type = StatusType(c[2]))

\* C23: no SetTempo and no SequenceNumber event whose tempo or number was
\* never set is among the events of a decoded track.
C23_WrongLengthDropped ==
    LoadedWithin =>
        \A r \in LoadedPlaces :
            LoadedEvent(r).type \in {Midi_Event_Type_SetTempo, Midi_Event_Type_SequenceNumber}
                => ~IsUninit(LoadedEvent(r).data)

\* C24: no event of a decoded track comes after an EndOfTrack event.
C24_StopsAtEndOfTrack ==
    LoadedWithin =>
        \A r \in LoadedPlaces :
            LoadedEvent(r).type = Midi_Event_Type_EndOfTrack
                => r[2] = handle[FileA].file.Tracks[r[1]].NumEvents - 1

\* C26: MidiTrack_Read reads no byte at or beyond the chunk length.
C26_ReadsWithinChunk ==
    FileA \in DOMAIN handle => ~handle[FileA].overread

\* C27: every event of a decoded track has an interface and data that the
\* decoder filled.
C27_EventsComplete ==
    LoadedWithin =>
        \A r \in LoadedPlaces :
            /\ LoadedEvent(r).type \in InterfaceTable
            /\ ~IsUninit(LoadedEvent(r).data)

\* ================================================== the clocks of a long file
MaxClockEvents == 3
LongDelta == 1000000

\* single-track files of notes that lie LongDelta ticks apart, about 43
\* minutes at the default tick duration
InitClock ==
    /\ FileIn(midi, {StandardPPQ}, Shapes(1, MaxClockEvents),
              {NoteEvent(Midi_Event_Type_NoteOn, 0, 60, 64)}, {0, LongDelta})
    /\ InitLocals
    /\ InitCodec

SpecClock == InitClock /\ [][Next]_vars

\* C25: the clock_ticks and the clock_us passed to the callback never
\* decrease from one invocation to the next.
C25_ClocksMonotonic ==
    \A k \in 1 .. Len(calls) - 1 :
        /\ ~Lt32(calls[k + 1].timeTicks, calls[k].timeTicks)
        /\ ~Lt32(calls[k + 1].timeUs, calls[k].timeUs)

\* ============================================== files with empty tracks
\* shapes whose tracks may hold no event, as the tracks of a header that
\* announces more tracks than the file has MTrk chunks
SparseShapes(maxTracks, maxEvents) ==
    UNION {{s \in [0 .. n - 1 -> 0 .. maxEvents] : SumTo(s, n) <= maxEvents} :
           n \in 1 .. maxTracks}

InitSparse ==
    /\ FileIn(midi, {StandardPPQ}, SparseShapes(MaxTracks, MaxSoloEvents),
              PlayBodies, 0 .. MaxDelta)
    /\ InitLocals
    /\ InitCodec

SpecSparse == InitSparse /\ [][Next]_vars

\* C28: MidiFile_Play never reads an event at an index that is not below
\* NumEvents of its track; a track without events never fires.
C28_NoEventBeyondTrack ==
    /\ pc # "fault"
    /\ \A k \in 1 .. Len(calls) :
           calls[k].event.index < midi.Tracks[calls[k].track].NumEvents

\* =================================================== files of long texts
MaxTextFragments == 4

\* a text event of the longest text read_data_Text takes, a text event of
\* one character, and a NoteOn
LongText == [i \in 1 .. MidiEventData_Text_Max_Length - 1 |-> 65]
TextFragments ==
    {<<0, MetaPrefix, Midi_Event_Type_Text, Len(LongText)>> \o LongText,
     <<0, MetaPrefix, Midi_Event_Type_Text, 1, 65>>,
     <<0, 144, 60, 64>>}

InitTexts ==
    /\ midi = NULL
    /\ InitLocals
    /\ \E q \in SeqsUpTo(TextFragments, MaxTextFragments) :
           disk = [n \in {FileA} |-> OneTrackFile(q)]
    /\ handle = << >>
    /\ retval = NULL
    /\ vlq = NULL

SpecTexts == InitTexts /\ [][NextFiles]_vars

\* C29: MidiFile_Save writes no event beyond the buffer it allocated for
\* the track: before each event the free space is at least the bytes of
\* its delta time and body.
C29_SaveWithinBuffer ==
    (FileA \in DOMAIN handle /\ FileB \in DOMAIN disk) =>
        \A g \in GarbageBytes : ~MidiFile_SaveOverflows(handle[FileA].file, g)

\* ======================================================== a long track
MaxWrapTurns == 2
MaxTurnsBeforeWrap == 2

\* the events of a long track
LongBodies ==
    {NoteEvent(Midi_Event_Type_NoteOn, 0, 60, 64), ProgramChangeEvent(0, 1)}

\* a file of one track of n equal events, all at delta time 0
LongFile(n, body) ==
    [Format |-> MIDI_FORMAT_SINGLE_TRACK, nTrks |-> 1,
     PulsesPerQuarterNote |-> StandardPPQ,
     Tracks |-> [t \in {0} |->
        [NumEvents |-> n, Every |-> MidiEvent(Zero32, body)]]]

\* track lengths around the number of values of the uint16_t currentEvent
LongLengths == {Half - 1, Half, Half + 1}

\* MidiFile_Play(file, start, cb) on a long file after k turns of its while
\* loop, k below NumEvents and below 2^16, when cb has answered
\* Player_Callback_IgnoreEvent k times: every turn fired one event at tick 0
\* and left the locals as they were, but for currentEvent. The logs calls,
\* synth and sleeps hold what happens from this state on.
AfterTurns(file, start, k) ==
    /\ midi = file
    /\ pc = "while"
    /\ start_usec = start
    /\ cbFunc = "user"
    /\ waitTicks = [t \in {0} |-> Zero32]
    /\ minimumWaitTicks = Zero32
    /\ countFinishedTracks = 0
    /\ currentEvent = [t \in {0} |-> k]
    /\ TickDurationUs = FromNat(DefaultTickUs)
    /\ currentTotalTime_Ticks = Zero32
    /\ currentTotalTime_Usecs = Zero32
    /\ decrementTicks = Zero32
    /\ trackIndex = 1
    /\ cbResult = Player_Callback_IgnoreEvent
    /\ list = << >>
    /\ numEvents = 0
    /\ calls = << >>
    /\ synth = << >>
    /\ sleeps = << >>

\* the player on a long file, at most MaxTurnsBeforeWrap turns before
\* currentEvent reaches 2^16
InitLong ==
    /\ \E n \in LongLengths, body \in LongBodies, start \in StartTimes :
       \E k \in Half - MaxTurnsBeforeWrap .. Half - 1 :
           k < n /\ AfterTurns(LongFile(n, body), start, k)
    /\ InitCodec

\* the turns are followed until MaxWrapTurns events past 2^16 have fired
NextLong ==
    \/ Len(calls) < MaxTurnsBeforeWrap + MaxWrapTurns /\ Play_While
    \/ Len(calls) < MaxTurnsBeforeWrap + MaxWrapTurns /\ Play_For
    \/ Play_Return

SpecLong == InitLong /\ [][NextLong]_vars

\* C30: the event index of a track never wraps: of two invocations of the
\* callback for the same track the later one is for the event of the higher
\* index, so that no event is fired a second time, whatever NumEvents is.
C30_EachEventOnce ==
    \A i \in 1 .. Len(calls), j \in 1 .. Len(calls) :
        (i < j /\ calls[i].track = calls[j].track) =>
            calls[i].event.index < calls[j].event.index

====
